---- MODULE Spec2Model ----
(***************************************************************************)
(* Password_Policy_Checker.py: a straight-line script that reads a         *)
(* username and a password, applies seven checks to them and prints a      *)
(* score, a level and the reasons of the failed checks.                    *)
(* Mini_Store.py: a store inventory with a shopping cart.                  *)
(*                                                                         *)
(* Text is modelled as a sequence of one-character strings.                *)
(***************************************************************************)
EXTENDS Integers, Sequences, FiniteSets, TLC

(***************************************************************************)
(* Characters.  AsciiLow and AsciiHigh list the printable ASCII characters *)
(* in code-point order (32..95 and 97..126; the grave accent, 96, cannot   *)
(* be written in a string here and is left out); two non-ASCII letters     *)
(* stand for the rest of Unicode.                                          *)
(***************************************************************************)
AsciiLow == <<
    " ", "!", "\"", "#", "$", "%", "&", "'", "(", ")", "*", "+",
    ",", "-", ".", "/", "0", "1", "2", "3", "4", "5", "6", "7",
    "8", "9", ":", ";", "<", "=", ">", "?", "@", "A", "B", "C",
    "D", "E", "F", "G", "H", "I", "J", "K", "L", "M", "N", "O",
    "P", "Q", "R", "S", "T", "U", "V", "W", "X", "Y", "Z", "[",
    "\\", "]", "^", "_" >>

AsciiHigh == <<
    "a", "b", "c", "d", "e", "f", "g", "h", "i", "j", "k", "l",
    "m", "n", "o", "p", "q", "r", "s", "t", "u", "v", "w", "x",
    "y", "z", "{", "|", "}", "~" >>

eAcute == "é"

EAcute == "É"

Char == { AsciiLow[i] : i \in 1..Len(AsciiLow) }
          \cup { AsciiHigh[i] : i \in 1..Len(AsciiHigh) } \cup {eAcute, EAcute}

\* chr(n) for the printable ASCII range
Chr == [n \in (32..95) \cup (97..126) |->
          IF n <= 95 THEN AsciiLow[n - 31] ELSE AsciiHigh[n - 96]]

\* ord(c): the code point, which is what Python's <= on characters compares
Ord == [c \in Char |-> IF c = eAcute THEN 233
                       ELSE IF c = EAcute THEN 201
                       ELSE CHOOSE n \in DOMAIN Chr : Chr[n] = c]

\* 'a' <= character <= 'z'
IsAsciiLower(c) == Ord["a"] <= Ord[c] /\ Ord[c] <= Ord["z"]

\* 'A' <= character <= 'Z'
IsAsciiUpper(c) == Ord["A"] <= Ord[c] /\ Ord[c] <= Ord["Z"]

\* str.lower() on one character
LowerChar == [c \in Char |-> IF IsAsciiUpper(c) THEN Chr[Ord[c] + 32]
                             ELSE IF c = EAcute THEN eAcute ELSE c]

\* str.swapcase() on one character
SwapChar == [c \in Char |-> IF IsAsciiUpper(c) THEN Chr[Ord[c] + 32]
                            ELSE IF IsAsciiLower(c) THEN Chr[Ord[c] - 32]
                            ELSE IF c = EAcute THEN eAcute
                            ELSE IF c = eAcute THEN EAcute ELSE c]

\* str.isalnum() on one character
IsAlnum(c) == \/ IsAsciiLower(c) \/ IsAsciiUpper(c)
              \/ (Ord["0"] <= Ord[c] /\ Ord[c] <= Ord["9"])
              \/ c \in {eAcute, EAcute}

\* str.isspace() on one character
IsSpace(c) == c = " "

MapSeq(f, s) == [i \in 1..Len(s) |-> f[s[i]]]

\* str.lower()
Lower(s) == MapSeq(LowerChar, s)

\* str.swapcase()
Swapcase(s) == MapSeq(SwapChar, s)

\* str.translate(table): characters in the table are replaced, others kept
Translate(s, table) ==
  [i \in 1..Len(s) |-> IF s[i] \in DOMAIN table THEN table[s[i]] ELSE s[i]]

RECURSIVE LStrip(_)
LStrip(s) == IF s # <<>> /\ IsSpace(Head(s)) THEN LStrip(Tail(s)) ELSE s

RECURSIVE RStrip(_)
RStrip(s) == IF s # <<>> /\ IsSpace(s[Len(s)])
             THEN RStrip(SubSeq(s, 1, Len(s) - 1)) ELSE s

\* str.strip()
Strip(s) == RStrip(LStrip(s))

\* some character of s is in the set cs
AnyIn(s, cs) == \E i \in 1..Len(s) : s[i] \in cs

(***************************************************************************)
(* The password checker's constants.                                       *)
(***************************************************************************)
top_score == 7

specials == {"!", "@", "$", "?"}

t_i == [c \in {"@", "$", "!", "0"} |->
          IF c = "@" THEN "a" ELSE IF c = "$" THEN "s" ELSE IF c = "!" THEN "i" ELSE "o"]

t_l == [c \in {"@", "$", "!", "0"} |->
          IF c = "@" THEN "a" ELSE IF c = "$" THEN "s" ELSE IF c = "!" THEN "l" ELSE "o"]

t_pw == [c \in {"@", "$", "0"} |->
          IF c = "@" THEN "a" ELSE IF c = "$" THEN "s" ELSE "o"]

common_pw == {
    <<"1", "2", "3", "4", "5", "6">>,
    <<"1", "2", "3", "4", "5", "6", "7", "8">>,
    <<"1", "2", "3", "4", "5", "6", "7", "8", "9">>,
    <<"1", "2", "3", "4", "5">>,
    <<"1", "1", "1", "1", "1", "1">>,
    <<"q", "w", "e", "r", "t", "y">>,
    <<"a", "s", "d", "f", "g", "h">>,
    <<"z", "x", "c", "v", "b", "n", "m">>,
    <<"p", "a", "s", "s", "w", "o", "r", "d">>,
    <<"a", "d", "m", "i", "n">>
  }

PasswordWord == <<"p", "a", "s", "s", "w", "o", "r", "d">>

ReasonLength == "Password must be longer than 8 characters."

ReasonCombo == "Password Failed: At least one letter and one special character must be present."

ReasonIdentity == "Password cannot be the same as username."

ReasonCase == "Password cannot be all-lowercase or all-uppercase."

ReasonSwapcase == "Password is swapcase version of username."

ReasonSymbol == "Password contains symbols replacing letters (e.g. '@' for 'a')."

ReasonCommon == "Password is too common or similar to 'password'."

(***************************************************************************)
(* The inputs.  Every text is a possible input; the model draws the two    *)
(* lines typed from every text up to MaxLen over a small alphabet, the     *)
(* same texts made long by a run of digits, and a list of named texts.     *)
(***************************************************************************)
MaxLen == 2

PwAlphabet == {"a", "A", "@", "!", "1"}

UnAlphabet == {"a", "A", "i", "l", "@"}

Pad == <<"7", "7", "7", "7", "7", "7", "7", "7", "7">>

TextsUpTo(alphabet, n) == UNION { [1..k -> alphabet] : k \in 0..n }

Padded(texts) == texts \cup { t \o Pad : t \in texts }

NamedPasswords == {
    <<"a", "l", "i", "c", "e", "1", "2", "3">>,
    <<"1", "2", "3", "4", "5", "6", "7", "8", "!">>,
    <<"B", "0", "b", "!", "2", "0", "2", "5">>,
    <<"a", "d", "m", "i", "n">>,
    <<"A", "D", "M", "I", "N">>,
    <<"t", "O", "M">>,
    <<"p", "a", "s", "s", "w", "o", "r", "d">>,
    <<"p", "@", "s", "s", "w", "0", "r", "d">>,
    <<"P", "@", "$", "$", "-", "w", "0", "r", "d", "!">>,
    <<"p", "a", "s", "s", " ", "w", "o", "r", "d">>,
    <<"1", "2", "3", "4", "5">>,
    <<"1", "2", "3", "4", "5", "6", "7", "8", "9">>,
    <<>>,
    <<" ", "a", "d", "m", "i", "n", " ">>,
    <<"@", "d", "m", "!", "n">>,
    <<"a", "!", "i", "c", "e">>,
    <<"b", "0", "b">>,
    <<"$", "a", "m">>,
    <<"é">>,
    <<"É">>,
    <<"É", "a", "?", "b", "c", "d", "e", "f", "g">>,
    <<"A", "l", "i", "c", "e", "?", "2", "0", "2", "5", "x">>,
    <<"?">>,
    <<"q", "w", "e", "r", "t", "y">>,
    <<"A", "L", "I", "C", "E">>
  }

NamedUsernames == {
    <<"a", "l", "i", "c", "e">>,
    <<"b", "o", "b">>,
    <<"A", "d", "m", "i", "n">>,
    <<"T", "o", "m">>,
    <<"a", "d", "m", "i", "n">>,
    <<"s", "a", "m">>,
    <<>>,
    <<"p", "a", "s", "s", "w", "o", "r", "d">>,
    <<"1", "2", "3", "4", "5">>,
    <<"é">>,
    <<" ", "a", "l", "i", "c", "e", " ">>,
    <<"A", "l", "i", "c", "e", "?", "2", "0", "2", "5", "x">>,
    <<"q", "w", "e", "r", "t", "y">>,
    <<"t", "o", "m">>
  }

PasswordLines == Padded(TextsUpTo(PwAlphabet, MaxLen)) \cup NamedPasswords

UsernameLines == Padded(TextsUpTo(UnAlphabet, MaxLen)) \cup NamedUsernames

(***************************************************************************)
(* State.  The first six variables are the password checker's, the last    *)
(* five the store's.                                                       *)
(***************************************************************************)
VARIABLES username, password, score, failed_parameters, level, pc,
          products, items, mode, stock_at_cart, inventory_file

pwVars == <<username, password, score, failed_parameters, level, pc>>

storeVars == <<products, items, mode, stock_at_cart, inventory_file>>

vars == <<username, password, score, failed_parameters, level, pc,
          products, items, mode, stock_at_cart, inventory_file>>

(***************************************************************************)
(* The seven checks.  Each checker takes the running score and reasons     *)
(* (acc) and returns them after its check.                                 *)
(***************************************************************************)
\* score -= 1; failed_parameters.append(reason)
Penalize(acc, reason) ==
  [score |-> acc.score - 1, failed |-> Append(acc.failed, reason)]

\* the boundary moved: a password of exactly 8 characters passes
LengthFails_Strict(p) == Len(p) < 8

LengthFails(p) == Len(p) <= 8

LengthChecker(p, acc) ==
  IF LengthFails(p) THEN Penalize(acc, ReasonLength) ELSE acc

check_special(p) == \E i \in 1..Len(p) : p[i] \in specials

check_letter(p) == \E i \in 1..Len(p) : IsAsciiLower(p[i]) \/ IsAsciiUpper(p[i])

\* the parentheses lost: not binds to check_letter only
ComboFails_NoParens(p) == (~check_letter(p)) /\ check_special(p)

ComboFails(p) == ~(check_letter(p) /\ check_special(p))

ComboChecker(p, acc) ==
  IF ComboFails(p) THEN Penalize(acc, ReasonCombo) ELSE acc

IdentityFails(u, p) == p = u

IdentityChecker(u, p, acc) ==
  IF IdentityFails(u, p) THEN Penalize(acc, ReasonIdentity) ELSE acc

check_lower(p) == \E i \in 1..Len(p) : IsAsciiLower(p[i])

check_upper(p) == \E i \in 1..Len(p) : ~IsAsciiLower(p[i]) /\ IsAsciiUpper(p[i])

\* the guard 'check_lower or check_upper' lost
CaseFails_NoLetterGuard(p) == ~(check_lower(p) /\ check_upper(p))

CaseFails(p) ==
  (check_lower(p) \/ check_upper(p)) /\ ~(check_lower(p) /\ check_upper(p))

CaseChecker(p, acc) ==
  IF CaseFails(p) THEN Penalize(acc, ReasonCase) ELSE acc

\* the guard 'password != username' lost
SwapcaseFails_NoDistinct(u, p) == p = Swapcase(u)

SwapcaseFails(u, p) == (p # u) /\ (p = Swapcase(u))

SwapcaseChecker(u, p, acc) ==
  IF SwapcaseFails(u, p) THEN Penalize(acc, ReasonSwapcase) ELSE acc

p_norm_i(p) == Translate(Lower(p), t_i)

\* the second table a copy of the first: '!' read as 'i' only
p_norm_l_AsI(p) == Translate(Lower(p), t_i)

p_norm_l(p) == Translate(Lower(p), t_l)

used_symbols(p) == \E i \in 1..Len(p) : p[i] \in {"@", "$", "!", "0"}

\* the guard 'used_symbols' lost
SymbolFails_NoUsed(u, p) == p_norm_i(p) = Lower(u) \/ p_norm_l(p) = Lower(u)

SymbolFails(u, p) ==
  used_symbols(p) /\ (p_norm_i(p) = Lower(u) \/ p_norm_l(p) = Lower(u))

SymbolChecker(u, p, acc) ==
  IF SymbolFails(u, p) THEN Penalize(acc, ReasonSymbol) ELSE acc

\* "".join(ch for ch in pw_low.translate(t_pw) if ch.isalnum())
pw_norm_alnum(p) == SelectSeq(Translate(Lower(p), t_pw), IsAlnum)

\* the else lost: the second test runs after the first as well
CommonChecker_NoElse(p, acc) ==
  LET a1 == IF Lower(p) \in common_pw THEN Penalize(acc, ReasonCommon) ELSE acc
  IN  IF pw_norm_alnum(p) = PasswordWord THEN Penalize(a1, ReasonCommon) ELSE a1

CommonChecker(p, acc) ==
  IF Lower(p) \in common_pw
  THEN Penalize(acc, ReasonCommon)
  ELSE IF pw_norm_alnum(p) = PasswordWord
       THEN Penalize(acc, ReasonCommon)
       ELSE acc

\* the first threshold strict
Level_Strict(s) == IF s > 5 THEN "Strong" ELSE IF s >= 3 THEN "Medium" ELSE "Weak"

Level(s) == IF s >= 5 THEN "Strong" ELSE IF s >= 3 THEN "Medium" ELSE "Weak"

(***************************************************************************)
(* The script, one action per block.  Init is the state after lines 1-8:   *)
(* both lines read and stripped, score = top_score, no reasons.            *)
(***************************************************************************)
Acc == [score |-> score, failed |-> failed_parameters]

StoreIdle ==
  /\ products = <<>>
  /\ items = <<>>
  /\ mode = "main"
  /\ stock_at_cart = <<>>
  /\ inventory_file = [exists |-> FALSE, products |-> <<>>]

Init ==
  /\ \E line \in UsernameLines : username = Strip(line)
  /\ \E line \in PasswordLines : password = Strip(line)
  /\ score = top_score
  /\ failed_parameters = <<>>
  /\ level = "unset"
  /\ pc = "length"
  /\ StoreIdle

Step(from, to, acc) ==
  /\ pc = from
  /\ pc' = to
  /\ score' = acc.score
  /\ failed_parameters' = acc.failed
  /\ UNCHANGED <<username, password, level, storeVars>>

CheckLength == Step("length", "combo", LengthChecker(password, Acc))

CheckCombo == Step("combo", "identity", ComboChecker(password, Acc))

CheckIdentity == Step("identity", "case", IdentityChecker(username, password, Acc))

CheckCase == Step("case", "swapcase", CaseChecker(password, Acc))

CheckSwapcase == Step("swapcase", "symbol", SwapcaseChecker(username, password, Acc))

CheckSymbol == Step("symbol", "common", SymbolChecker(username, password, Acc))

CheckCommon == Step("common", "output", CommonChecker(password, Acc))

Output ==
  /\ pc = "output"
  /\ level' = Level(score)
  /\ pc' = "done"
  /\ UNCHANGED <<username, password, score, failed_parameters, storeVars>>

Next ==
  \/ CheckLength
  \/ CheckCombo
  \/ CheckIdentity
  \/ CheckCase
  \/ CheckSwapcase
  \/ CheckSymbol
  \/ CheckCommon
  \/ Output

Spec == Init /\ [][Next]_vars

\* the checks that fail for u and p, by number
FailedChecks(u, p) ==
  { k \in 1..7 :
      \/ k = 1 /\ LengthFails(p)
      \/ k = 2 /\ ComboFails(p)
      \/ k = 3 /\ IdentityFails(u, p)
      \/ k = 4 /\ CaseFails(p)
      \/ k = 5 /\ SwapcaseFails(u, p)
      \/ k = 6 /\ SymbolFails(u, p)
      \/ k = 7 /\ (Lower(p) \in common_pw \/ pw_norm_alnum(p) = PasswordWord) }

Done == pc = "done"

Recorded(reason) == \E i \in 1..Len(failed_parameters) : failed_parameters[i] = reason

\* C1: when the evaluation ends, 0 <= score <= 7, score is 7 minus the number
\* of failed checks, and the number of reasons is 7 - score.
C1_ScoreCountsFailures ==
  Done => /\ 0 <= score /\ score <= 7
          /\ score = 7 - Cardinality(FailedChecks(username, password))
          /\ Len(failed_parameters) = 7 - score

\* a state where the common-password check has penalised: once, by either branch
C1_Witness ==
  /\ Done
  /\ Recorded(ReasonCommon)
  /\ Lower(password) \notin common_pw
  /\ score = 7 - Len(failed_parameters)

\* the inputs as the script sees them
Usernames == { Strip(line) : line \in UsernameLines }

Passwords == { Strip(line) : line \in PasswordLines }

\* C2 (as stated): the score is never negative and some username and password
\* fail all seven checks, which gives score 0.
C2_Original ==
  /\ score >= 0
  /\ \E u \in Usernames, p \in Passwords : Cardinality(FailedChecks(u, p)) = 7

\* C2 (amended): the score is never negative and the minimum reachable score
\* is 2: no evaluation ends below 2.
C2_ScoreFloor ==
  /\ score >= 0
  /\ Done => score >= 2

\* five checks failed in one evaluation
C2_Witness == Done /\ score = 2 /\ Len(failed_parameters) = 5

ClaimedLevel(s) ==
  CASE s >= 5 -> "Strong"
    [] s \in {3, 4} -> "Medium"
    [] s < 3 -> "Weak"

\* C3: the level is decided by the final score: >= 5 Strong, 3 or 4 Medium,
\* below 3 Weak, for every score in 0..7.
C3_LevelFromScore ==
  /\ Done => level = ClaimedLevel(score)
  /\ \A s \in 0..top_score : Level(s) = ClaimedLevel(s)

\* the boundaries 5 and 3 are reported as Strong and Medium
C3_Witness == Done /\ score = 5 /\ level = "Strong"

alice == <<"a", "l", "i", "c", "e">>

alice123 == <<"a", "l", "i", "c", "e", "1", "2", "3">>

ScenarioA == Done /\ username = alice /\ password = alice123

\* C4 (as stated): alice / alice123 fails the length and the letter-and-special
\* checks and ends with score 5, level Medium and two failures.
C4_Original ==
  ScenarioA => /\ Recorded(ReasonLength) /\ Recorded(ReasonCombo)
               /\ score = 5
               /\ level = "Medium"
               /\ Len(failed_parameters) = 2

\* C4 (amended): alice / alice123 fails the length, the letter-and-special and
\* the case-mixing checks and ends with score 4, level Medium, three failures.
C4_ScenarioA ==
  ScenarioA => /\ failed_parameters = <<ReasonLength, ReasonCombo, ReasonCase>>
               /\ score = 4
               /\ level = "Medium"

C4_Witness == ScenarioA /\ Len(failed_parameters) = 3

LowerLetters ==
  {"a", "b", "c", "d", "e", "f", "g", "h", "i", "j", "k", "l", "m",
   "n", "o", "p", "q", "r", "s", "t", "u", "v", "w", "x", "y", "z"}

UpperLetters ==
  {"A", "B", "C", "D", "E", "F", "G", "H", "I", "J", "K", "L", "M",
   "N", "O", "P", "Q", "R", "S", "T", "U", "V", "W", "X", "Y", "Z"}

AsciiLetterPositions(p) ==
  { i \in 1..Len(p) : p[i] \in LowerLetters \cup UpperLetters }

SingleCase(p) ==
  /\ AsciiLetterPositions(p) # {}
  /\ \/ \A i \in AsciiLetterPositions(p) : p[i] \in LowerLetters
     \/ \A i \in AsciiLetterPositions(p) : p[i] \in UpperLetters

AfterCase == pc \in {"swapcase", "symbol", "common", "output", "done"}

\* C5: check 4 fails exactly when the password has an ASCII letter and all its
\* ASCII letters have one case; without ASCII letters it never fails.
C5_CaseMixing ==
  AfterCase => /\ Recorded(ReasonCase) <=> SingleCase(password)
               /\ AsciiLetterPositions(password) = {} => ~Recorded(ReasonCase)

\* a password without ASCII letters that failed other checks but not check 4
C5_Witness ==
  /\ Done
  /\ password # <<>>
  /\ AsciiLetterPositions(password) = {}
  /\ Recorded(ReasonCombo)
  /\ ~Recorded(ReasonCase)

Symbols == {"@", "$", "!", "0"}

Subst(c, bang) ==
  CASE c = "@" -> "a"
    [] c = "$" -> "s"
    [] c = "0" -> "o"
    [] c = "!" -> bang
    [] OTHER -> c

Disguises(u, p) ==
  /\ \E i \in 1..Len(p) : p[i] \in Symbols
  /\ Len(p) = Len(u)
  /\ \E bang \in {"i", "l"} :
       \A i \in 1..Len(p) : Subst(LowerChar[p[i]], bang) = LowerChar[u[i]]

AfterSymbol == pc \in {"common", "output", "done"}

\* C6: check 6 fails exactly when the password has one of @ $ ! 0 and its
\* lowercased form, with @->a, $->s, 0->o and ! read as i or as l, is the
\* lowercased username; without those characters it never fails.
C6_SymbolSubstitution ==
  AfterSymbol => /\ Recorded(ReasonSymbol) <=> Disguises(username, password)
                 /\ (\A i \in 1..Len(password) : password[i] \notin Symbols)
                      => ~Recorded(ReasonSymbol)

\* check 6 failed through the reading of ! as l
C6_Witness ==
  /\ Done
  /\ Recorded(ReasonSymbol)
  /\ \E i \in 1..Len(password) : password[i] = "!" /\ LowerChar[username[i]] = "l"

EmptyPassword == Done /\ password = <<>>

\* C7: an empty password is evaluated to the end; the length and the
\* letter-and-special checks fail and score, level and reasons are produced.
C7_EmptyPassword ==
  EmptyPassword =>
    /\ Recorded(ReasonLength) /\ Recorded(ReasonCombo)
    /\ score = (IF username = <<>> THEN 4 ELSE 5)
    /\ level = (IF username = <<>> THEN "Medium" ELSE "Strong")
    /\ Len(failed_parameters) = top_score - score

C7_Witness == EmptyPassword /\ username # <<>> /\ Len(failed_parameters) = 2

\* C10: at most one of the identity, swapcase and symbol-substitution checks
\* fails in one evaluation.
C10_Exclusive ==
  /\ Cardinality({ r \in {ReasonIdentity, ReasonSwapcase, ReasonSymbol} : Recorded(r) }) <= 1
  /\ Cardinality(FailedChecks(username, password) \cap {3, 5, 6}) <= 1

\* the swapcase check failed on a password that has substitution symbols
C10_Witness ==
  /\ Done
  /\ Recorded(ReasonSwapcase)
  /\ used_symbols(password)

(***************************************************************************)
(* Mini_Store.py.  products is Store.products, a list of Product records;  *)
(* items is the customer's Cart.items, each entry holding a reference to   *)
(* a Product (its position in products, which never changes while a cart   *)
(* lives) and a quantity.  mode is the menu the program is in.  Prices are *)
(* modelled by integers.  stock_at_cart remembers every product's stock at *)
(* the moment the cart was created.  inventory_file is store_data.json:    *)
(* whether it exists and the product list it holds.  mode "crashed" is the *)
(* program ended by an exception main() does not catch.  The purchase      *)
(* history file is not modelled.                                           *)
(***************************************************************************)
MaxStock == 2

MaxQuantity == 2

\* the names typed in the manager's add round
ProductLines == { <<"a", " ">>, <<"b">> }

\* the names typed in the customer portal
LookupLines == { <<"A">>, <<" ", "b">>, <<"c">> }

Prices == {-1, 2}

StockInputs == {-1, 2}

Categories == {"Food"}

\* Product.__post_init__: the two ValueErrors
ProductInvalid(price, stock) == price < 0 \/ stock < 0

\* Product(...) when __post_init__ raises nothing
Product(name, price, stock, category) ==
  [name |-> Strip(name), price |-> price, stock |-> stock, category |-> category]

\* Store.to_json: the list of asdict(p)
to_json(prods) == prods

\* Store.from_json raises ValueError when some Product(**p) does
from_json_raises(data) ==
  \E i \in 1..Len(data) : ProductInvalid(data[i].price, data[i].stock)

\* Store.from_json: the list of Product(**p)
from_json(data) ==
  [i \in 1..Len(data) |->
     Product(data[i].name, data[i].price, data[i].stock, data[i].category)]

\* Store.save: the file after json.dump
save(prods) == [exists |-> TRUE, products |-> to_json(prods)]

\* Store.load raises ValueError
load_raises(file) == file.exists /\ from_json_raises(file.products)

\* Store.load: the products of the store returned
load(file) == IF file.exists THEN from_json(file.products) ELSE <<>>

\* Store.find_product: the position of the first match, 0 for None
find_product(prods, name) ==
  LET name_norm == Lower(Strip(name))
      hits == { i \in 1..Len(prods) : Lower(prods[i].name) = name_norm }
  IN  IF hits = {} THEN 0 ELSE CHOOSE i \in hits : \A j \in hits : i <= j

\* Store.add_product; a ValueError from Product(...) leaves the list as it was
add_product(prods, name, price, stock, category) ==
  LET existing == find_product(prods, name)
  IN  IF existing # 0
      THEN [prods EXCEPT ![existing].price = price,
                         ![existing].stock = @ + stock,
                         ![existing].category = IF category # "" THEN category ELSE @]
      ELSE IF ProductInvalid(price, stock)
           THEN prods
           ELSE Append(prods, Product(name, price, stock,
                                      IF category # "" THEN category ELSE "General"))

\* Cart._find_item: the position of the first match in items, 0 for None
find_item(prods, its, product_name) ==
  LET name_norm == Lower(Strip(product_name))
      hits == { k \in 1..Len(its) : Lower(prods[its[k].product].name) = name_norm }
  IN  IF hits = {} THEN 0 ELSE CHOOSE k \in hits : \A j \in hits : k <= j

\* Cart.add_to_cart(product, quantity), product being prods[p]
add_to_cart(prods, its, p, quantity) ==
  IF quantity <= 0 \/ prods[p].stock < quantity
  THEN [products |-> prods, items |-> its, result |-> FALSE]
  ELSE LET prods1 == [prods EXCEPT ![p].stock = @ - quantity]
           existing == find_item(prods1, its, prods1[p].name)
       IN  [products |-> prods1,
            items |-> IF existing # 0
                      THEN [its EXCEPT ![existing].quantity = @ + quantity]
                      ELSE Append(its, [product |-> p, quantity |-> quantity]),
            result |-> TRUE]

\* list.remove(item): drops the first entry equal to item, field by field
ListRemove(prods, its, item) ==
  LET Same(x) == prods[x.product] = prods[item.product] /\ x.quantity = item.quantity
      k == CHOOSE i \in 1..Len(its) :
             Same(its[i]) /\ \A j \in 1..(i - 1) : ~Same(its[j])
  IN  SubSeq(its, 1, k - 1) \o SubSeq(its, k + 1, Len(its))

\* the stock is not restored
remove_from_cart_NoRestore(prods, its, product_name) ==
  LET k == find_item(prods, its, product_name)
  IN  IF k = 0
      THEN [products |-> prods, items |-> its, result |-> FALSE]
      ELSE [products |-> prods,
            items |-> ListRemove(prods, its, its[k]),
            result |-> TRUE]

\* Cart.remove_from_cart(product_name)
remove_from_cart(prods, its, product_name) ==
  LET k == find_item(prods, its, product_name)
  IN  IF k = 0
      THEN [products |-> prods, items |-> its, result |-> FALSE]
      ELSE LET prods1 == [prods EXCEPT ![its[k].product].stock = @ + its[k].quantity]
           IN  [products |-> prods1,
                items |-> ListRemove(prods1, its, its[k]),
                result |-> TRUE]

(***************************************************************************)
(* The program: main menu, manager portal, customer portal.  The store is  *)
(* loaded at start: empty, or what an earlier run saved.                   *)
(***************************************************************************)
PasswordIdle ==
  /\ username = <<>>
  /\ password = <<>>
  /\ score = top_score
  /\ failed_parameters = <<>>
  /\ level = "unset"
  /\ pc = "idle"

SavedInventories ==
  { << Product(<<"A">>, 0, 1, "Food"), Product(<<"b">>, 2, 2, "General") >> }

\* main: store = Store.load(STORE_DB_PATH), the file absent or left by an
\* earlier run
StoreInit ==
  /\ PasswordIdle
  /\ inventory_file \in { [exists |-> FALSE, products |-> <<>>] }
                          \cup { save(inv) : inv \in SavedInventories }
  /\ products = load(inventory_file)
  /\ items = <<>>
  /\ mode = "main"
  /\ stock_at_cart = <<>>

\* manager_portal after a successful manager_login
ManagerLogin ==
  /\ mode = "main"
  /\ mode' = "manager"
  /\ UNCHANGED <<products, items, stock_at_cart, inventory_file, pwVars>>

\* one round of add_products_flow
AddProducts ==
  /\ mode = "manager"
  /\ \E line \in ProductLines, price \in Prices, stock \in StockInputs, category \in Categories :
       LET prods1 == add_product(products, Strip(line), price, stock, category)
       IN  /\ \A i \in 1..Len(prods1) :
                prods1[i].stock <= MaxStock /\ prods1[i].stock >= -1
           /\ products' = prods1
  /\ UNCHANGED <<items, mode, stock_at_cart, inventory_file, pwVars>>

\* manager_portal, choice 3
SaveInventory ==
  /\ mode = "manager"
  /\ inventory_file' = save(products)
  /\ UNCHANGED <<products, items, mode, stock_at_cart, pwVars>>

\* manager_portal, choice 4; a ValueError from Store.load ends the program
LoadInventory ==
  /\ mode = "manager"
  /\ IF load_raises(inventory_file)
     THEN mode' = "crashed" /\ UNCHANGED products
     ELSE products' = load(inventory_file) /\ UNCHANGED mode
  /\ UNCHANGED <<items, stock_at_cart, inventory_file, pwVars>>

\* manager_portal, choice 5
ManagerBack ==
  /\ mode = "manager"
  /\ mode' = "main"
  /\ UNCHANGED <<products, items, stock_at_cart, inventory_file, pwVars>>

\* customer_portal: cart = Cart()
CustomerEnter ==
  /\ mode = "main"
  /\ mode' = "customer"
  /\ items' = <<>>
  /\ stock_at_cart' = [i \in 1..Len(products) |-> products[i].stock]
  /\ UNCHANGED <<products, inventory_file, pwVars>>

\* customer_portal, choice 1
AddItem ==
  /\ mode = "customer"
  /\ \E line \in LookupLines, qty \in -1..MaxQuantity :
       LET p == find_product(products, Strip(line))
       IN  IF p = 0
           THEN UNCHANGED <<products, items>>
           ELSE LET r == add_to_cart(products, items, p, qty)
                IN  products' = r.products /\ items' = r.items
  /\ UNCHANGED <<mode, stock_at_cart, inventory_file, pwVars>>

\* customer_portal, choice 2
RemoveItem ==
  /\ mode = "customer"
  /\ \E line \in LookupLines :
       LET r == remove_from_cart(products, items, Strip(line))
       IN  products' = r.products /\ items' = r.items
  /\ UNCHANGED <<mode, stock_at_cart, inventory_file, pwVars>>

\* customer_portal, choice 4 confirmed: cart.clear() and back to the main menu
Checkout ==
  /\ mode = "customer"
  /\ items # <<>>
  /\ items' = <<>>
  /\ mode' = "main"
  /\ stock_at_cart' = <<>>
  /\ UNCHANGED <<products, inventory_file, pwVars>>

\* customer_portal, choice 6: the cart is dropped with what it holds
CustomerBack ==
  /\ mode = "customer"
  /\ items' = <<>>
  /\ mode' = "main"
  /\ stock_at_cart' = <<>>
  /\ UNCHANGED <<products, inventory_file, pwVars>>

StoreNext ==
  \/ ManagerLogin
  \/ AddProducts
  \/ SaveInventory
  \/ LoadInventory
  \/ ManagerBack
  \/ CustomerEnter
  \/ AddItem
  \/ RemoveItem
  \/ Checkout
  \/ CustomerBack

StoreSpec == StoreInit /\ [][StoreNext]_vars

\* C8: every product in the store has stock >= 0 and price >= 0.
C8_NoNegativeProduct ==
  \A i \in 1..Len(products) : products[i].stock >= 0 /\ products[i].price >= 0

RECURSIVE SumQuantity(_, _)
SumQuantity(its, p) ==
  IF its = <<>> THEN 0
  ELSE (IF Head(its).product = p THEN Head(its).quantity ELSE 0)
         + SumQuantity(Tail(its), p)

\* C9: while a cart lives, every product's stock plus the quantity of it in
\* the cart is its stock when the cart was created.
C9_CartConservation ==
  mode = "customer" =>
    \A p \in 1..Len(products) :
      products[p].stock + SumQuantity(items, p) = stock_at_cart[p]

\* a cart holding two products, one of them added to more than once or in bulk
C9_Witness ==
  /\ mode = "customer"
  /\ Len(items) = 2
  /\ \E k \in 1..Len(items) : items[k].quantity >= 2
  /\ \E p \in 1..Len(products) : products[p].stock # stock_at_cart[p]

====
